---- MODULE Spec2Model ----
(***************************************************************************)
(* Client-side PDF pagination and export pipeline of the learning room     *)
(* content views (NotesView, QAView, GenericContentView).                  *)
(*                                                                         *)
(* Specifications:                                                         *)
(*   SpecPag  the three splitContentIntoPages functions, stepped through   *)
(*            their for-loop one block at a time, on bounded inputs;       *)
(*   Spec     the export job: handleExportInitiate, the e-mail prompt and  *)
(*            handleExportConfirm with its await points;                   *)
(*   LiveSpec Spec with every awaited call settling eventually;            *)
(*   SpecName the file name suggested for a local download, on bounded     *)
(*            lesson names and resource labels.                            *)
(***************************************************************************)
EXTENDS Integers, Sequences, FiniteSets, TLC

VARIABLES
    view,           \* which component: "notes", "qa" or "generic"
    html,           \* top-level children of contentContainer (the input)
    blockElements,  \* the blocks the for-loop walks over
    i,              \* loop index (1-based)
    pc,             \* position inside splitContentIntoPages
    pages,          \* pages pushed so far
    currentPageHTML,\* the page under construction, a sequence of tokens
    currentHeight,  \* running height of the page under construction
    result,         \* the returned array of pages (<<>> until returned)
    user,           \* the signed-in user: role, canEdit, email
    contents,       \* the content items of the lesson as currently loaded
    exportModalOpen,\* the e-mail prompt (ExportEmailModal) is open
    isExporting,    \* the isExporting flag of the component
    sweetAlert,     \* the loading / success / error modal
    container,      \* exportContainerRef: the shared staging container
    downloadKey,    \* sessionStorage 'downloaded_<lesson>_notes'
    jobs,           \* the invocations of handleExportConfirm
    download        \* the download link: lesson name, resource label, file name

pagVars == <<html, blockElements, i, pc, pages, currentPageHTML, currentHeight, result>>

expVars == <<user, contents, exportModalOpen, isExporting, sweetAlert, container, downloadKey, jobs, download>>

vars == <<view, pagVars, expVars>>

----------------------------------------------------------------------------
(* Bounds of the model *)

MaxBlocks == 3

MaxSections == 2

MaxJobs == 2

MaxName == 2

----------------------------------------------------------------------------
(* Program constants *)

maxHeightPerPage == 900

headingThreshold == 150

spacing == 8

----------------------------------------------------------------------------
(* Generic helpers *)

RECURSIVE SumSeq(_)
SumSeq(s) == IF s = <<>> THEN 0 ELSE Head(s) + SumSeq(Tail(s))

RECURSIVE Concat(_)
Concat(ss) == IF ss = <<>> THEN <<>> ELSE Head(ss) \o Concat(Tail(ss))

SeqUpTo(S, n) == UNION {[1..k -> S] : k \in 0..n}

HeightsOf(s) == [k \in 1..Len(s) |-> s[k].h]

----------------------------------------------------------------------------
(* Measured blocks.  A block is a DOM element with its tag, its measured    *)
(* offsetHeight h, its <li>/<tr> children (items, by measured height) and,  *)
(* for text blocks, its content atoms: words (w = TRUE) and non-text        *)
(* content such as images or formulas (w = FALSE), each with the height it  *)
(* adds to the block.                                                       *)

Unit(w, h, id) == [w |-> w, h |-> h, id |-> id]

MkBlock(tag, h) == [tag |-> tag, h |-> h, items |-> <<>>, atoms |-> <<>>]

MkList(tag, n, ih) == [tag |-> tag, h |-> n * ih, items |-> [k \in 1..n |-> ih], atoms |-> <<>>]

MkPara(tag, atoms) == [tag |-> tag, h |-> SumSeq(HeightsOf(atoms)), items |-> <<>>, atoms |-> atoms]

MkSection(text, children) == [text |-> text, children |-> children]

isHeading(el) == el.tag \in {"H1", "H2", "H3", "H4", "H5", "H6"}

\* What a block holds, unit by unit: the atoms of a text block, the items of a
\* list or table, the block itself otherwise.
BlockContent(el) ==
    IF el.atoms # <<>> THEN el.atoms
    ELSE IF el.tag \in {"UL", "OL", "TABLE"} THEN [k \in 1..Len(el.items) |-> Unit(FALSE, el.items[k], k)]
    ELSE IF el.h = 0 THEN <<>>
    ELSE <<Unit(FALSE, el.h, 0)>>

----------------------------------------------------------------------------
(* Page tokens: what is appended to currentPageHTML.                        *)

Tok(k, b, tag, h, c) == [k |-> k, b |-> b, tag |-> tag, h |-> h, c |-> c]

BlockTok(el, b) == Tok("block", b, el.tag, el.h, BlockContent(el))

SpacerTok(b) == Tok("spacer", b, "DIV", spacing, <<>>)

OpenTok(tag, b) == Tok("open", b, tag, 0, <<>>)

CloseTok(tag, b) == Tok("close", b, tag, 0, <<>>)

ItemTok(el, b, k) == Tok("item", b, el.tag, el.items[k], <<Unit(FALSE, el.items[k], k)>>)

PartTok(el, b, part) == Tok("part", b, el.tag, SumSeq(HeightsOf(part)), part)

PlaceholderTok == Tok("placeholder", 0, "DIV", 0, <<>>)

----------------------------------------------------------------------------
(* The paginator state: pages pushed, the page being filled, its height.    *)

PagState(pgs, cur, ch) == [pages |-> pgs, cur |-> cur, ch |-> ch]

\* pages.push(currentPageHTML); currentPageHTML = ''; currentHeight = 0;
Flush(st) == PagState(Append(st.pages, st.cur), <<>>, 0)

\* Flattening of the note sections (NotesView only): a section without
\* element children but with text becomes a new <p>; otherwise its element
\* children are taken (its own text nodes are not); if nothing was collected
\* the sections themselves are the blocks.
SectionBlocks(section) ==
    IF section.children = <<>> /\ section.text > 0
    THEN <<MkPara("P", <<Unit(TRUE, section.text, 1)>>)>>
    ELSE section.children

SectionAsBlock(section) == MkBlock("DIV", section.text + SumSeq(HeightsOf(section.children)))

FlatBlocks(sections) ==
    LET flat == Concat([k \in 1..Len(sections) |-> SectionBlocks(sections[k])])
    IN  IF flat = <<>> /\ Len(sections) > 0
        THEN [k \in 1..Len(sections) |-> SectionAsBlock(sections[k])]
        ELSE flat

BlockElements(v, top) == IF v = "notes" THEN FlatBlocks(top) ELSE top

\* Mutant: the running height is compared with the threshold instead of the
\* space left.
HeadingCheckOnHeight(st, el) ==
    IF isHeading(el) /\ st.ch < headingThreshold /\ st.cur # <<>>
    THEN Flush(st)
    ELSE st

\* Intelligent breaking for headings.
HeadingCheck(st, el) ==
    IF isHeading(el) /\ maxHeightPerPage - st.ch < headingThreshold /\ st.cur # <<>>
    THEN Flush(st)
    ELSE st

\* Mutant: the unit is appended without the overflow check.
PlaceUnitNoFlush(st, tok) == PagState(st.pages, Append(st.cur, tok), st.ch + tok.h)

\* Flush if the unit does not fit on a non-empty page, then append it.
PlaceUnit(st, tok) ==
    LET s1 == IF st.ch + tok.h > maxHeightPerPage /\ st.cur # <<>> THEN Flush(st) ELSE st
    IN  PagState(s1.pages, Append(s1.cur, tok), s1.ch + tok.h)

PlaceWhole(st, el, b) == PlaceUnit(st, BlockTok(el, b))

\* tempDiv.offsetHeight of an element holding the given words.
Measure(part) == SumSeq(HeightsOf(part))

EmptyWord == Unit(TRUE, 0, 0)

\* element.textContent.split(/\s+/): the words only; [''] for no text.
TextNodes(el) ==
    LET words == SelectSeq(el.atoms, LAMBDA u : u.w)
    IN  IF words = <<>> THEN <<EmptyWord>> ELSE words

Trim(part) == SelectSeq(part, LAMBDA u : u # EmptyWord)

RECURSIVE SplitWords(_, _, _, _)
SplitWords(words, k, currentPart, splitParts) ==
    IF k > Len(words)
    THEN IF currentPart # <<>> THEN Append(splitParts, Trim(currentPart)) ELSE splitParts
    ELSE LET testPart == Append(currentPart, words[k])
         IN  IF Measure(testPart) > maxHeightPerPage
             THEN SplitWords(words, k + 1, <<words[k]>>, Append(splitParts, Trim(currentPart)))
             ELSE SplitWords(words, k + 1, testPart, splitParts)

RECURSIVE PlaceParts(_, _, _, _, _)
PlaceParts(st, el, b, parts, k) ==
    IF k > Len(parts) THEN st
    ELSE PlaceParts(PlaceUnit(st, PartTok(el, b, parts[k])), el, b, parts, k + 1)

WordSplitBranch(st, el, b) == PlaceParts(st, el, b, SplitWords(TextNodes(el), 1, <<>>, <<>>), 1)

\* Mutant: the closing tag is forgotten.
WrapFragmentNoClose(tag, b, frag) == <<OpenTok(tag, b)>> \o frag

\* currentListHTML + `</${listType}>` : the fragment with its own tags.
WrapFragment(tag, b, frag) == <<OpenTok(tag, b)>> \o frag \o <<CloseTok(tag, b)>>

\* The item loop shared by the list and the table branch.  frag is what has
\* been added to currentListHTML / tableHTML after the opening tag, fh is
\* listHeight / tableHeight.
RECURSIVE SplitItems(_, _, _, _, _, _)
SplitItems(st, el, b, k, frag, fh) ==
    IF k > Len(el.items)
    THEN IF frag # <<>>
         THEN PagState(st.pages, st.cur \o WrapFragment(el.tag, b, frag), st.ch + fh)
         ELSE st
    ELSE IF st.ch + fh + el.items[k] > maxHeightPerPage /\ st.cur # <<>>
         THEN LET closed == IF frag # <<>> THEN st.cur \o WrapFragment(el.tag, b, frag) ELSE st.cur
              IN  SplitItems(PagState(Append(st.pages, closed), <<>>, 0), el, b, k + 1,
                             <<ItemTok(el, b, k)>>, el.items[k])
         ELSE SplitItems(st, el, b, k + 1, Append(frag, ItemTok(el, b, k)), fh + el.items[k])

ListBranch(st, el, b) == SplitItems(st, el, b, 1, <<>>, 0)

TableBranch(st, el, b) == SplitItems(st, el, b, 1, <<>>, 0)

\* Mutant: the word split is taken for an oversized block of any tag.
NotesPlaceSplitsAnyTag(st, el, b) ==
    IF el.h > maxHeightPerPage THEN WordSplitBranch(st, el, b)
    ELSE IF el.tag \in {"UL", "OL"} THEN ListBranch(st, el, b)
    ELSE IF el.tag = "TABLE" THEN TableBranch(st, el, b)
    ELSE PlaceWhole(st, el, b)

\* The body of the NotesView loop between the heading check and the spacer.
NotesPlace(st, el, b) ==
    IF el.h > maxHeightPerPage /\ el.tag \in {"P", "DIV"} THEN WordSplitBranch(st, el, b)
    ELSE IF el.tag \in {"UL", "OL"} THEN ListBranch(st, el, b)
    ELSE IF el.tag = "TABLE" THEN TableBranch(st, el, b)
    ELSE PlaceWhole(st, el, b)

Place(v, st, el, b) == IF v = "notes" THEN NotesPlace(st, el, b) ELSE PlaceWhole(st, el, b)

\* Mutant: a spacer follows the last block too.
SpacerAfterLast(st, b, n) ==
    IF b <= n
    THEN LET s1 == IF st.ch + spacing > maxHeightPerPage /\ st.cur # <<>> THEN Flush(st) ELSE st
         IN  PagState(s1.pages, Append(s1.cur, SpacerTok(b)), s1.ch + spacing)
    ELSE st

\* The 8px spacer after every block but the last.
Spacer(st, b, n) ==
    IF b < n
    THEN LET s1 == IF st.ch + spacing > maxHeightPerPage /\ st.cur # <<>> THEN Flush(st) ELSE st
         IN  PagState(s1.pages, Append(s1.cur, SpacerTok(b)), s1.ch + spacing)
    ELSE st

\* Mutant: no placeholder page.
FinishNoPlaceholder(st) == IF st.cur # <<>> THEN Append(st.pages, st.cur) ELSE st.pages

\* After the loop: push the last page; the placeholder if there is no page.
Finish(st) ==
    LET pushed == IF st.cur # <<>> THEN Append(st.pages, st.cur) ELSE st.pages
    IN  IF pushed = <<>> THEN <<<<PlaceholderTok>>>> ELSE pushed

RECURSIVE PagLoop(_, _, _, _)
PagLoop(v, st, blocks, b) ==
    IF b > Len(blocks) THEN st
    ELSE PagLoop(v, Spacer(Place(v, HeadingCheck(st, blocks[b]), blocks[b], b), b, Len(blocks)), blocks, b + 1)

\* Mutant: the page list is not reset; the run starts from the pages left
\* in the staging container.
splitContentIntoPagesLeftover(v, top) ==
    Finish(PagLoop(v, PagState(container.pages, <<>>, 0), BlockElements(v, top), 1))

\* splitContentIntoPages as a whole, as the export job calls it.
splitContentIntoPages(v, top) == Finish(PagLoop(v, PagState(<<>>, <<>>, 0), BlockElements(v, top), 1))

----------------------------------------------------------------------------
(* Inputs of the paginator runs.                                            *)

\* Top-level children handed to the QAView / GenericContentView paginator.
QAPool ==
    { MkBlock("DIV", 100), MkBlock("DIV", 760), MkBlock("DIV", 895),
      MkBlock("DIV", 1200), MkBlock("H3", 60), MkBlock("H1", 950) }

\* Blocks found inside note sections.
BigPara == MkPara("P", <<Unit(TRUE, 500, 1), Unit(FALSE, 300, 2), Unit(TRUE, 500, 3)>>)

\* A DIV taller than a page that holds no text at all.
ImgDiv == MkPara("DIV", <<Unit(FALSE, 1000, 1)>>)

NotePool ==
    { MkBlock("H2", 60), MkPara("P", <<Unit(TRUE, 760, 1)>>), BigPara, ImgDiv,
      MkList("UL", 20, 60), MkList("OL", 0, 0), MkList("TABLE", 3, 400),
      MkBlock("PRE", 1000), MkBlock("H1", 950) }

SectionPool ==
    { MkSection(0, <<>>), MkSection(40, <<>>),
      MkSection(40, <<MkPara("P", <<Unit(TRUE, 760, 1)>>)>>),
      MkSection(0, <<MkBlock("H2", 60), MkPara("P", <<Unit(TRUE, 100, 1)>>)>>) }
    \cup { MkSection(0, <<el>>) : el \in NotePool }

Views == {"notes", "qa", "generic"}

Inputs(v) == IF v = "notes" THEN SeqUpTo(SectionPool, MaxSections) ELSE SeqUpTo(QAPool, MaxBlocks)


----------------------------------------------------------------------------
(* The export job: component state and one record per invocation of         *)
(* handleExportConfirm.                                                     *)

NoJob ==
    [ pc |-> "none", status |-> "pending", email |-> "", viaPrompt |-> FALSE,
      items |-> <<>>, logo |-> FALSE, pages |-> <<>>, k |-> 0, doc |-> <<>>,
      paginated |-> FALSE, staged |-> FALSE, blob |-> FALSE,
      downloads |-> 0, sent |-> <<>>, answer |-> "none", counted |-> 0, err |-> "none" ]

NoAlert == [show |-> FALSE, type |-> "loading", phone |-> FALSE]

EmptyContainer == [owner |-> 0, logo |-> FALSE, pages |-> <<>>]

JobIds == 1..MaxJobs

NoName == [lesson |-> <<>>, label |-> <<>>, date |-> ""]

NoDownload == [lessonName |-> <<>>, label |-> <<>>, set |-> FALSE, name |-> NoName]

\* The export state of a freshly mounted view, apart from user and contents.
ExportIdle ==
    /\ user = [role |-> "user", canEdit |-> FALSE, email |-> ""]
    /\ contents = <<>>
    /\ exportModalOpen = FALSE
    /\ isExporting = FALSE
    /\ sweetAlert = NoAlert
    /\ container = EmptyContainer
    /\ downloadKey = FALSE
    /\ jobs = [j \in JobIds |-> NoJob]
    /\ download = NoDownload

----------------------------------------------------------------------------
(* SpecPag: one run of splitContentIntoPages, stepped through its loop.     *)

Cur == PagState(pages, currentPageHTML, currentHeight)

SetCur(st) ==
    /\ pages' = st.pages
    /\ currentPageHTML' = st.cur
    /\ currentHeight' = st.ch

InitPag ==
    /\ view \in Views
    /\ html \in Inputs(view)
    /\ blockElements = BlockElements(view, html)
    /\ i = 1
    /\ pc = IF blockElements = <<>> THEN "finish" ELSE "heading"
    /\ pages = <<>>
    /\ currentPageHTML = <<>>
    /\ currentHeight = 0
    /\ result = <<>>
    /\ ExportIdle

StepHeading ==
    /\ pc = "heading"
    /\ SetCur(HeadingCheck(Cur, blockElements[i]))
    /\ pc' = "place"
    /\ UNCHANGED <<view, html, blockElements, i, result, expVars>>

StepPlace ==
    /\ pc = "place"
    /\ SetCur(Place(view, Cur, blockElements[i], i))
    /\ pc' = "spacer"
    /\ UNCHANGED <<view, html, blockElements, i, result, expVars>>

StepSpacer ==
    /\ pc = "spacer"
    /\ SetCur(Spacer(Cur, i, Len(blockElements)))
    /\ i' = i + 1
    /\ pc' = IF i < Len(blockElements) THEN "heading" ELSE "finish"
    /\ UNCHANGED <<view, html, blockElements, result, expVars>>

StepFinish ==
    /\ pc = "finish"
    /\ result' = Finish(Cur)
    /\ pc' = "done"
    /\ UNCHANGED <<view, html, blockElements, i, pages, currentPageHTML, currentHeight, expVars>>

NextPag == StepHeading \/ StepPlace \/ StepSpacer \/ StepFinish

SpecPag == InitPag /\ [][NextPag]_vars

\* The stepped run returns what the function computes as a whole.
StepwiseAgrees == pc = "done" => result = splitContentIntoPages(view, html)

----------------------------------------------------------------------------
(* Properties of the paginator (SpecPag).                                   *)

Done == pc = "done"

PageHeight(page) == SumSeq(HeightsOf(page))

\* Whole blocks on a page whose own height exceeds the budget.
OversizedBlocks(page) == {k \in 1..Len(page) : page[k].k = "block" /\ page[k].h > maxHeightPerPage}

BlocksOn(page) == {k \in 1..Len(page) : page[k].k = "block"}

PageContent(page) == Concat([k \in 1..Len(page) |-> IF page[k].k = "spacer" THEN <<>> ELSE page[k].c])

OutputContent(pgs) == Concat([k \in 1..Len(pgs) |-> PageContent(pgs[k])])

SectionContent(section) ==
    (IF section.text > 0 THEN <<Unit(TRUE, section.text, 1)>> ELSE <<>>)
        \o Concat([k \in 1..Len(section.children) |-> BlockContent(section.children[k])])

InputContent(v, top) ==
    IF v = "notes"
    THEN Concat([k \in 1..Len(top) |-> SectionContent(top[k])])
    ELSE Concat([k \in 1..Len(top) |-> BlockContent(top[k])])

\* C1: every produced page measures at most 900, except a page that holds
\* exactly one unsplittable block that is itself taller than 900.
C1_PageWithinBudget ==
    Done /\ blockElements # <<>> =>
        \A k \in 1..Len(result) :
            \/ PageHeight(result[k]) <= maxHeightPerPage
            \/ Cardinality(OversizedBlocks(result[k])) = 1

\* C2: the pages, read in order without the spacers, hold exactly the content
\* of the input, nothing omitted, duplicated or reordered.
C2_ContentPreserved == Done => OutputContent(result) = InputContent(view, html)

\* A page is well formed when every opening list/table tag is followed by at
\* least one item of that block and then by its closing tag, and items and
\* closing tags occur only inside such a fragment.
RECURSIVE WellFormedFrom(_, _, _, _)
WellFormedFrom(page, k, open, n) ==
    IF k > Len(page) THEN open = <<>>
    ELSE LET t == page[k]
         IN  IF open = <<>>
             THEN IF t.k = "open" THEN WellFormedFrom(page, k + 1, <<t.tag, t.b>>, 0)
                  ELSE t.k \notin {"item", "close"} /\ WellFormedFrom(page, k + 1, open, 0)
             ELSE IF t.k = "item" THEN <<t.tag, t.b>> = open /\ WellFormedFrom(page, k + 1, open, n + 1)
                  ELSE t.k = "close" /\ <<t.tag, t.b>> = open /\ n > 0
                       /\ WellFormedFrom(page, k + 1, <<>>, 0)

WellFormed(page) == WellFormedFrom(page, 1, <<>>, 0)

FragmentsOf(page, b) == {k \in 1..Len(page) : page[k].k = "open" /\ page[k].b = b}

HasItemsOf(page, b) == \E k \in 1..Len(page) : page[k].k = "item" /\ page[k].b = b

PagesWithItemsOf(pgs, b) == {k \in 1..Len(pgs) : HasItemsOf(pgs[k], b)}

\* C3: in NotesView every pushed page is well formed, and a list or table
\* spread over N pages contributes one fragment to each of them.
C3_FragmentsWellFormed ==
    view = "notes" =>
        /\ \A k \in 1..Len(pages) : WellFormed(pages[k])
        /\ \A k \in 1..Len(result) : WellFormed(result[k])
        /\ \A k \in 1..Len(result) : \A b \in 1..Len(blockElements) :
              Cardinality(FragmentsOf(result[k], b)) = IF HasItemsOf(result[k], b) THEN 1 ELSE 0

C3_Witness ==
    /\ Done /\ view = "notes"
    /\ \E b \in 1..Len(blockElements) : Cardinality(PagesWithItemsOf(result, b)) = 2

TwentyItems == <<MkSection(0, <<MkList("UL", 20, 60)>>)>>

\* C4: one unordered list of 20 items of 60px each yields exactly 2 pages,
\* each with a well-formed <ul> fragment, together holding the 20 items.
C4_ListOfTwentyOnTwoPages ==
    Done /\ view = "notes" /\ html = TwentyItems =>
        /\ Len(result) = 2
        /\ \A k \in 1..Len(result) : WellFormed(result[k]) /\ Cardinality(FragmentsOf(result[k], 1)) = 1
        /\ OutputContent(result) = InputContent(view, html)

HeadingOrphan ==
    /\ isHeading(blockElements[i])
    /\ currentPageHTML # <<>>
    /\ maxHeightPerPage - currentHeight < headingThreshold

\* C5: a heading that finds a non-empty page with less than 150 left flushes
\* that page and becomes the first block of the next one; with an empty page
\* or at least 150 left the heading check flushes nothing.
C5_HeadingOrphanRule ==
    [][ /\ pc = "heading" /\ HeadingOrphan =>
            pages' = Append(pages, currentPageHTML) /\ currentPageHTML' = <<>> /\ currentHeight' = 0
        /\ pc = "heading" /\ isHeading(blockElements[i]) /\ ~HeadingOrphan =>
            UNCHANGED <<pages, currentPageHTML, currentHeight>>
        /\ pc = "place" /\ isHeading(blockElements[i]) /\ currentPageHTML = <<>> =>
            pages' = pages /\ currentPageHTML' = <<BlockTok(blockElements[i], i)>>
      ]_vars

\* The heading check has just flushed: the page was left non-empty by the
\* spacer of the previous block.
C5_Witness ==
    /\ pc = "place" /\ i > 1 /\ isHeading(blockElements[i])
    /\ currentPageHTML = <<>> /\ pages # <<>>

PageOf(pgs, b) == {k \in 1..Len(pgs) : \E j \in 1..Len(pgs[k]) : pgs[k][j].k = "block" /\ pgs[k][j].b = b}

\* C6: in QAView and GenericContentView every top-level block is emitted
\* whole on exactly one page, and one taller than 900 shares its page with no
\* other block; a single 1200px pair yields exactly one page.
C6_PairsAtomic ==
    Done /\ view \in {"qa", "generic"} =>
        /\ \A b \in 1..Len(blockElements) :
              /\ Cardinality(PageOf(result, b)) = 1
              /\ \A k \in PageOf(result, b) :
                    /\ Cardinality({j \in 1..Len(result[k]) : result[k][j].b = b /\ result[k][j].k = "block"}) = 1
                    /\ \E j \in 1..Len(result[k]) : result[k][j] = BlockTok(blockElements[b], b)
                    /\ blockElements[b].h > maxHeightPerPage => Cardinality(BlocksOn(result[k])) = 1
        /\ \A k \in 1..Len(result) : \A j \in 1..Len(result[k]) : result[k][j].k \in {"block", "spacer", "placeholder"}
        /\ html = <<MkBlock("DIV", 1200)>> => Len(result) = 1

C6_Witness ==
    /\ Done /\ view = "qa" /\ Len(blockElements) = 3
    /\ blockElements[2].h > maxHeightPerPage
    /\ Len(result) = 3

HasPlaceholder(pgs) == \E k \in 1..Len(pgs) : \E j \in 1..Len(pgs[k]) : pgs[k][j].k = "placeholder"

SoleEmptyList ==
    /\ Len(blockElements) = 1
    /\ blockElements[1].tag \in {"UL", "OL", "TABLE"}
    /\ blockElements[1].items = <<>>

SpacersOf(page) == SelectSeq(page, LAMBDA t : t.k = "spacer")

SpacerCount(pgs) == Len(SpacersOf(Concat(pgs)))

\* C24: after each block except the last exactly one 8px spacer is emitted
\* (blocks - 1 over all returned pages) and its 8px is added to the running
\* height; when it would push a non-empty page beyond 900 the page is flushed
\* first and the spacer opens the next page; no other step emits a spacer.
C24_SpacerRule ==
    [][ /\ pc = "spacer" /\ i < Len(blockElements) =>
            IF currentHeight + spacing > maxHeightPerPage /\ currentPageHTML # <<>>
            THEN /\ pages' = Append(pages, currentPageHTML)
                 /\ currentPageHTML' = <<SpacerTok(i)>>
                 /\ currentHeight' = spacing
            ELSE /\ pages' = pages
                 /\ currentPageHTML' = Append(currentPageHTML, SpacerTok(i))
                 /\ currentHeight' = currentHeight + spacing
        /\ pc = "spacer" /\ i = Len(blockElements) =>
            UNCHANGED <<pages, currentPageHTML, currentHeight>>
        /\ pc \in {"heading", "place"} =>
            SpacerCount(Append(pages', currentPageHTML')) = SpacerCount(Append(pages, currentPageHTML))
        /\ pc = "finish" =>
            SpacerCount(result') = IF blockElements = <<>> THEN 0 ELSE Len(blockElements) - 1
      ]_vars

\* The spacer of the previous block has flushed a page and opened the next.
C24_Witness ==
    /\ pc = "heading" /\ i > 1
    /\ pages # <<>> /\ currentPageHTML = <<SpacerTok(i - 1)>> /\ currentHeight = spacing

PartsOf(pgs, b) == SelectSeq(Concat(pgs), LAMBDA t : t.k = "part" /\ t.b = b)

WordsOf(el) == SelectSeq(el.atoms, LAMBDA u : u.w)

\* C25: in NotesView the parts of a P or DIV taller than 900 hold the
\* block's words in order, none lost or repeated; every part is non-empty;
\* and every part measures at most 900 when each single word does.
C25_WordSplit ==
    Done /\ view = "notes" =>
        \A b \in 1..Len(blockElements) :
            LET el == blockElements[b]
                parts == PartsOf(result, b)
            IN  el.h > maxHeightPerPage /\ el.tag \in {"P", "DIV"} =>
                    /\ Concat([k \in 1..Len(parts) |-> parts[k].c]) = WordsOf(el)
                    /\ \A k \in 1..Len(parts) : parts[k].c # <<>>
                    /\ (\A k \in 1..Len(WordsOf(el)) : WordsOf(el)[k].h <= maxHeightPerPage) =>
                            \A k \in 1..Len(parts) : parts[k].h <= maxHeightPerPage

OversizedHeading(el) == isHeading(el) /\ el.h > maxHeightPerPage

\* C26: a heading taller than 900 is never word-split: it is emitted
\* whole, once, and is the first element of its page.
C26_OversizedHeadingWhole ==
    Done =>
        \A b \in 1..Len(blockElements) :
            OversizedHeading(blockElements[b]) =>
                /\ PartsOf(result, b) = <<>>
                /\ Cardinality(PageOf(result, b)) = 1
                /\ \A k \in PageOf(result, b) :
                      /\ result[k][1] = BlockTok(blockElements[b], b)
                      /\ \A j \in 2..Len(result[k]) : result[k][j].b # b \/ result[k][j].k = "spacer"

\* A NotesView run in which an oversized heading follows another block and
\* opens the second page.
C26_Witness ==
    /\ Done /\ view = "notes" /\ Len(blockElements) >= 2
    /\ OversizedHeading(blockElements[2])
    /\ Len(result) >= 2 /\ result[2][1] = BlockTok(blockElements[2], 2)

\* C27: for a non-empty input no returned page consists only of spacers.
C27_NoSpacerOnlyPage ==
    Done /\ blockElements # <<>> =>
        \A k \in 1..Len(result) : SpacersOf(result[k]) # result[k]

----------------------------------------------------------------------------
(* Spec: the export job.                                                    *)

Users == [role : {"admin", "user"}, canEdit : BOOLEAN, email : {"", "stored@x"}]

PromptEmails == {"a@x", "b@x"}

\* Mutant: the edit-capability flag is ignored.
PrivilegedRoleOnly(u) == u.role = "admin"

\* user.role === 'admin' || user.canEdit
Privileged(u) == u.role = "admin" \/ u.canEdit

SmallPara == MkPara("P", <<Unit(TRUE, 100, 1)>>)

TallPara == MkPara("P", <<Unit(TRUE, 760, 1)>>)

\* The content items of a lesson, already as the top-level elements the
\* HTML assembly makes of them: one note-section per note, one
\* qa-pair-container per question.
ExportContents(v) ==
    IF v = "notes"
    THEN { <<>>,
           <<MkSection(0, <<TallPara>>), MkSection(0, <<TallPara>>)>>,
           <<MkSection(0, <<SmallPara>>), MkSection(0, <<MkBlock("H2", 60), SmallPara>>)>>,
           <<MkSection(0, <<MkList("OL", 0, 0)>>)>> }
    ELSE { <<>>, <<MkBlock("DIV", 100)>>, <<MkBlock("DIV", 760), MkBlock("DIV", 895)>> }

\* An element that has ended up at the top level of contentContainer, seen
\* the way the flattening sees a section: its own text and element children.
BlockAsSection(el) ==
    LET words == SelectSeq(el.atoms, LAMBDA u : u.w)
        inline == SelectSeq(el.atoms, LAMBDA u : ~u.w)
    IN  IF el.tag \in {"UL", "OL"}
        THEN MkSection(0, [k \in 1..Len(el.items) |-> MkBlock("LI", el.items[k])])
        ELSE IF el.tag = "TABLE"
        THEN MkSection(0, IF el.items = <<>> THEN <<>> ELSE <<MkBlock("TBODY", el.h)>>)
        ELSE IF el.atoms = <<>>
        THEN MkSection(el.h, <<>>)
        ELSE MkSection(SumSeq(HeightsOf(words)), [k \in 1..Len(inline) |-> MkBlock("SPAN", inline[k].h)])

HasHeading(section) == \E k \in 1..Len(section.children) : isHeading(section.children[k])

FirstHeading(section) == CHOOSE k \in 1..Len(section.children) :
    /\ isHeading(section.children[k])
    /\ \A m \in 1..(k - 1) : ~isHeading(section.children[m])

\* removeUnformattedDuplicates: the HTML is cut at the first heading tag;
\* what follows the heading in its section moves to the top level.
removeUnformattedDuplicates(sections) ==
    IF \E s \in 1..Len(sections) : HasHeading(sections[s])
    THEN LET s == CHOOSE s \in 1..Len(sections) :
                      HasHeading(sections[s]) /\ \A m \in 1..(s - 1) : ~HasHeading(sections[m])
             h == FirstHeading(sections[s])
             kids == SubSeq(sections[s].children, h, Len(sections[s].children))
         IN  [k \in 1..Len(kids) |-> BlockAsSection(kids[k])] \o SubSeq(sections, s + 1, Len(sections))
    ELSE sections

\* The HTML handed to splitContentIntoPages.
ExportHTML(v, items) == IF v = "notes" THEN removeUnformattedDuplicates(items) ELSE items

\* const pages = splitContentIntoPages(finalHTML), for every content a view
\* can hold.
ExportPages ==
    [v \in Views |-> [items \in ExportContents(v) |->
        splitContentIntoPages(v, ExportHTML(v, items))]]

\* An ExportJob lives for one invocation: the record of a finished job is
\* given up when a later invocation needs it.
FreeJobs == {j \in JobIds : jobs[j].pc \in {"none", "done"}}

NextJob == CHOOSE j \in FreeJobs : \A m \in FreeJobs : j <= m

LoadingAlert == [show |-> TRUE, type |-> "loading", phone |-> FALSE]

\* Mutant: the job takes the stored address instead of its argument.
StartJobStoredEmail(email, viaPrompt) ==
    /\ FreeJobs # {}
    /\ jobs' = [jobs EXCEPT ![NextJob] =
                   [NoJob EXCEPT !.pc = "hierarchy", !.status = "generating", !.email = user.email,
                                 !.viaPrompt = viaPrompt, !.items = contents]]
    /\ isExporting' = TRUE
    /\ sweetAlert' = LoadingAlert
    /\ UNCHANGED <<user, contents, exportModalOpen, container, downloadKey>>

\* handleExportConfirm up to its first await (api.getHierarchy).
StartJob(email, viaPrompt) ==
    /\ FreeJobs # {}
    /\ jobs' = [jobs EXCEPT ![NextJob] =
                   [NoJob EXCEPT !.pc = "hierarchy", !.status = "generating", !.email = email,
                                 !.viaPrompt = viaPrompt, !.items = contents]]
    /\ isExporting' = TRUE
    /\ sweetAlert' = LoadingAlert
    /\ UNCHANGED <<user, contents, exportModalOpen, container, downloadKey>>

\* catch + finally
FailJob(j, job, err) ==
    /\ jobs' = [jobs EXCEPT ![j] = [job EXCEPT !.pc = "done", !.status = "failed", !.err = err]]
    /\ sweetAlert' = [show |-> TRUE, type |-> "error", phone |-> TRUE]
    /\ isExporting' = FALSE
    /\ container' = EmptyContainer
    /\ UNCHANGED <<user, contents, exportModalOpen, downloadKey>>

\* success modal, setExportModalOpen(false), finally
SucceedJob(j, job) ==
    /\ jobs' = [jobs EXCEPT ![j] = [job EXCEPT !.pc = "done", !.status = "succeeded"]]
    /\ sweetAlert' = [show |-> TRUE, type |-> "success", phone |-> FALSE]
    /\ exportModalOpen' = FALSE
    /\ isExporting' = FALSE
    /\ container' = EmptyContainer
    /\ UNCHANGED <<user, contents>>

\* The job suspends at its next await.
AwaitJob(j, job) ==
    /\ jobs' = [jobs EXCEPT ![j] = job]
    /\ UNCHANGED <<user, contents, exportModalOpen, isExporting>>

DefaultEmail == IF view = "notes" THEN "" ELSE "admin@example.com"

handleExportInitiate ==
    /\ contents # <<>>
    /\ IF Privileged(user)
       THEN StartJob(IF user.email # "" THEN user.email ELSE DefaultEmail, FALSE)
       ELSE IF user.email # ""
       THEN StartJob(user.email, FALSE)
       ELSE /\ exportModalOpen' = TRUE
            /\ UNCHANGED <<user, contents, isExporting, sweetAlert, container, downloadKey, jobs>>
    /\ UNCHANGED <<view, pagVars, download>>

\* ExportEmailModal: the form is submitted (the button is disabled while
\* isExporting).
SubmitEmail ==
    /\ exportModalOpen
    /\ ~isExporting
    /\ \E e \in PromptEmails : StartJob(e, TRUE)
    /\ UNCHANGED <<view, pagVars, download>>

ClosePrompt ==
    /\ exportModalOpen
    /\ exportModalOpen' = FALSE
    /\ UNCHANGED <<view, pagVars, download, user, contents, isExporting, sweetAlert, container, downloadKey, jobs>>

\* await api.getHierarchy(lessonId) settles.
HierarchyDone(j) ==
    /\ jobs[j].pc = "hierarchy"
    /\ \E ok \in BOOLEAN :
          IF ok
          THEN AwaitJob(j, [jobs[j] EXCEPT !.pc = "logo"]) /\ UNCHANGED <<sweetAlert, container, downloadKey>>
          ELSE FailJob(j, jobs[j], "hierarchy")
    /\ UNCHANGED <<view, pagVars, download>>

\* Mutant: the staging container is not emptied before the pages are added.
StageAppends(j, logo, pgs) == [owner |-> j, logo |-> logo, pages |-> container.pages \o pgs]

\* container.innerHTML = ''; then one .pdf-page element per page is appended.
Stage(j, logo, pgs) == [owner |-> j, logo |-> logo, pages |-> <<>> \o pgs]

\* How fetch('/top_logo.png') can end.
LogoFetches == {"ok", "non_ok", "network"}

\* Mutant: a failed logo fetch is thrown to the caller.
loadImageThrows(fetched) == [threw |-> fetched # "ok", data |-> fetched = "ok"]

\* loadImage: the data URL of the image; '' (no data) when the fetch fails
\* or answers non-OK, caught inside the function.
loadImage(fetched) == [threw |-> FALSE, data |-> fetched = "ok"]

\* Mutant: the no-content check is left out.
LogoDoneNoContentCheck(j) ==
    /\ jobs[j].pc = "logo"
    /\ \E fetched \in LogoFetches :
          LET img == loadImage(fetched)
              job == [jobs[j] EXCEPT !.logo = img.data]
          IN  IF img.threw
              THEN FailJob(j, job, "logo")
              ELSE LET pgs == ExportPages[view][job.items]
                   IN  /\ AwaitJob(j, [job EXCEPT !.pc = "raster", !.paginated = TRUE,
                                                   !.pages = pgs, !.staged = TRUE, !.k = 1])
                       /\ container' = Stage(j, job.logo, pgs)
                       /\ UNCHANGED <<sweetAlert, downloadKey>>
    /\ UNCHANGED <<view, pagVars, download>>

\* Mutant: the promise of loadImage stays pending when the fetch fails.
LogoDoneHangs(j) ==
    /\ jobs[j].pc = "logo"
    /\ \E fetched \in LogoFetches :
          LET job == [jobs[j] EXCEPT !.logo = fetched = "ok"]
          IN  IF fetched # "ok"
              THEN /\ AwaitJob(j, [job EXCEPT !.pc = "logo_pending"])
                   /\ UNCHANGED <<sweetAlert, container, downloadKey>>
              ELSE IF job.items = <<>>
              THEN FailJob(j, job, "no_content")
              ELSE LET pgs == ExportPages[view][job.items]
                   IN  /\ AwaitJob(j, [job EXCEPT !.pc = "raster", !.paginated = TRUE,
                                                   !.pages = pgs, !.staged = TRUE, !.k = 1])
                       /\ container' = Stage(j, job.logo, pgs)
                       /\ UNCHANGED <<sweetAlert, downloadKey>>
    /\ UNCHANGED <<view, pagVars, download>>

\* await loadImage settles; the no-content check, pagination, the staging
\* container and the page elements follow up to the first html2canvas call.
LogoDone(j) ==
    /\ jobs[j].pc = "logo"
    /\ \E fetched \in LogoFetches :
          LET img == loadImage(fetched)
              job == [jobs[j] EXCEPT !.logo = img.data]
          IN  IF img.threw
              THEN FailJob(j, job, "logo")
              ELSE IF job.items = <<>>
              THEN FailJob(j, job, "no_content")
              ELSE LET pgs == ExportPages[view][job.items]
                   IN  /\ AwaitJob(j, [job EXCEPT !.pc = "raster", !.paginated = TRUE,
                                                   !.pages = pgs, !.staged = TRUE, !.k = 1])
                       /\ container' = Stage(j, job.logo, pgs)
                       /\ UNCHANGED <<sweetAlert, downloadKey>>
    /\ UNCHANGED <<view, pagVars, download>>

\* The usage-counter step that follows a hand-over, per view.
CountOrSucceed(j, job) ==
    IF view = "generic"
    THEN SucceedJob(j, [job EXCEPT !.counted = @ + 1]) /\ UNCHANGED downloadKey
    ELSE IF view = "notes" /\ downloadKey
    THEN SucceedJob(j, job) /\ UNCHANGED downloadKey
    ELSE /\ AwaitJob(j, [job EXCEPT !.pc = "count", !.counted = @ + 1])
         /\ UNCHANGED <<sweetAlert, container, downloadKey>>

\* Mutant: the next page is started before the bitmap of this one is added.
RasterDoneStartsNext(j) ==
    /\ jobs[j].pc = "raster"
    /\ \E ok \in BOOLEAN :
          IF ~ok
          THEN FailJob(j, jobs[j], "raster")
          ELSE IF jobs[j].k < Len(jobs[j].pages)
               THEN /\ AwaitJob(j, [jobs[j] EXCEPT !.k = @ + 1])
                    /\ UNCHANGED <<sweetAlert, container, downloadKey>>
               ELSE LET job == [jobs[j] EXCEPT !.doc = jobs[j].pages]
                    IN  IF Privileged(user)
                        THEN CountOrSucceed(j, [job EXCEPT !.blob = TRUE, !.status = "delivering_local",
                                                            !.downloads = @ + 1])
                        ELSE /\ AwaitJob(j, [job EXCEPT !.blob = TRUE, !.status = "delivering_remote",
                                                        !.pc = "send", !.sent = Append(@, job.email)])
                             /\ sweetAlert' = LoadingAlert
                             /\ UNCHANGED <<container, downloadKey>>
    /\ UNCHANGED <<view, pagVars, download>>

\* Mutant: each raster is put in front of the document.
RasterDonePrepends(j) ==
    /\ jobs[j].pc = "raster"
    /\ \E ok \in BOOLEAN :
          IF ~ok
          THEN FailJob(j, jobs[j], "raster")
          ELSE LET job == [jobs[j] EXCEPT !.doc = <<jobs[j].pages[jobs[j].k]>> \o @]
               IN  IF job.k < Len(job.pages)
                   THEN /\ AwaitJob(j, [job EXCEPT !.k = @ + 1])
                        /\ UNCHANGED <<sweetAlert, container, downloadKey>>
                   ELSE IF Privileged(user)
                   THEN CountOrSucceed(j, [job EXCEPT !.blob = TRUE, !.status = "delivering_local",
                                                       !.downloads = @ + 1])
                   ELSE /\ AwaitJob(j, [job EXCEPT !.blob = TRUE, !.status = "delivering_remote",
                                                   !.pc = "send", !.sent = Append(@, job.email)])
                        /\ sweetAlert' = LoadingAlert
                        /\ UNCHANGED <<container, downloadKey>>
    /\ UNCHANGED <<view, pagVars, download>>

\* Mutant: a page whose rasterization fails is left out and the loop goes on.
RasterDoneSkipsFailed(j) ==
    /\ jobs[j].pc = "raster"
    /\ \E ok \in BOOLEAN :
          LET job == IF ok THEN [jobs[j] EXCEPT !.doc = Append(@, jobs[j].pages[jobs[j].k])] ELSE jobs[j]
          IN  IF job.k < Len(job.pages)
              THEN /\ AwaitJob(j, [job EXCEPT !.k = @ + 1])
                   /\ UNCHANGED <<sweetAlert, container, downloadKey>>
              ELSE IF Privileged(user)
              THEN CountOrSucceed(j, [job EXCEPT !.blob = TRUE, !.status = "delivering_local",
                                                  !.downloads = @ + 1])
              ELSE /\ AwaitJob(j, [job EXCEPT !.blob = TRUE, !.status = "delivering_remote",
                                              !.pc = "send", !.sent = Append(@, job.email)])
                   /\ sweetAlert' = LoadingAlert
                   /\ UNCHANGED <<container, downloadKey>>
    /\ UNCHANGED <<view, pagVars, download>>

\* await html2canvas(page k) settles; after the last page the document is
\* produced and distributed according to the caller's privilege.
RasterDone(j) ==
    /\ jobs[j].pc = "raster"
    /\ \E ok \in BOOLEAN :
          IF ~ok
          THEN FailJob(j, jobs[j], "raster")
          ELSE LET job == [jobs[j] EXCEPT !.doc = Append(@, jobs[j].pages[jobs[j].k])]
               IN  IF job.k < Len(job.pages)
                   THEN /\ AwaitJob(j, [job EXCEPT !.k = @ + 1])
                        /\ UNCHANGED <<sweetAlert, container, downloadKey>>
                   ELSE IF Privileged(user)
                   THEN CountOrSucceed(j, [job EXCEPT !.blob = TRUE, !.status = "delivering_local",
                                                       !.downloads = @ + 1])
                   ELSE /\ AwaitJob(j, [job EXCEPT !.blob = TRUE, !.status = "delivering_remote",
                                                   !.pc = "send", !.sent = Append(@, job.email)])
                        /\ sweetAlert' = LoadingAlert
                        /\ UNCHANGED <<container, downloadKey>>
    /\ UNCHANGED <<view, pagVars, download>>

\* await fetch('/api/export/send-pdf') settles.
SendDone(j) ==
    /\ jobs[j].pc = "send"
    /\ \E ok \in BOOLEAN :
          IF ok
          THEN AwaitJob(j, [jobs[j] EXCEPT !.pc = "json"]) /\ UNCHANGED <<sweetAlert, container, downloadKey>>
          ELSE FailJob(j, jobs[j], "network")
    /\ UNCHANGED <<view, pagVars, download>>

\* What the delivery channel can answer: a body that is not JSON, a non-OK
\* status, success false, or OK with success true.
Answers == {"unparsable", "non_ok", "success_false", "accepted"}

\* Mutant: res.ok is not looked at.
JsonDoneIgnoresStatus(j) ==
    /\ jobs[j].pc = "json"
    /\ \E answer \in Answers :
          LET job == [jobs[j] EXCEPT !.answer = answer]
          IN  IF answer \in {"accepted", "non_ok"}
              THEN CountOrSucceed(j, job)
              ELSE FailJob(j, job, IF answer = "unparsable" THEN "json" ELSE "delivery")
    /\ UNCHANGED <<view, pagVars, download>>

\* await res.json() settles; res.ok && responseData.success decides.
JsonDone(j) ==
    /\ jobs[j].pc = "json"
    /\ \E answer \in Answers :
          LET job == [jobs[j] EXCEPT !.answer = answer]
          IN  IF answer = "accepted"
              THEN CountOrSucceed(j, job)
              ELSE FailJob(j, job, IF answer = "unparsable" THEN "json" ELSE "delivery")
    /\ UNCHANGED <<view, pagVars, download>>

\* await api.incrementLessonDownload settles.
CountDone(j) ==
    /\ jobs[j].pc = "count"
    /\ \E ok \in BOOLEAN :
          IF view = "qa" /\ Privileged(user) /\ ~ok
          THEN FailJob(j, jobs[j], "counter")
          ELSE /\ SucceedJob(j, jobs[j])
               /\ downloadKey' = IF view = "notes" /\ (ok \/ ~Privileged(user)) THEN TRUE ELSE downloadKey
    /\ UNCHANGED <<view, pagVars, download>>

\* The OK button of a success or error modal.
DismissAlert ==
    /\ sweetAlert.show
    /\ sweetAlert.type # "loading"
    /\ sweetAlert' = [sweetAlert EXCEPT !.show = FALSE]
    /\ UNCHANGED <<view, pagVars, download, user, contents, exportModalOpen, isExporting, container, downloadKey, jobs>>

\* useApi delivers another content list (lesson changed, content edited).
ContentChanged ==
    /\ \E c \in ExportContents(view) \ {contents} : contents' = c
    /\ UNCHANGED <<view, pagVars, download, user, exportModalOpen, isExporting, sweetAlert, container, downloadKey, jobs>>

Init ==
    /\ view \in Views
    /\ html = <<>>
    /\ blockElements = <<>>
    /\ i = 1
    /\ pc = "none"
    /\ pages = <<>>
    /\ currentPageHTML = <<>>
    /\ currentHeight = 0
    /\ result = <<>>
    /\ user \in Users
    /\ contents \in ExportContents(view)
    /\ exportModalOpen = FALSE
    /\ isExporting = FALSE
    /\ sweetAlert = NoAlert
    /\ container = EmptyContainer
    /\ downloadKey \in (IF view = "notes" THEN BOOLEAN ELSE {FALSE})
    /\ jobs = [j \in JobIds |-> NoJob]
    /\ download = NoDownload

Next ==
    \/ handleExportInitiate
    \/ SubmitEmail
    \/ ClosePrompt
    \/ DismissAlert
    \/ ContentChanged
    \/ \E j \in JobIds : HierarchyDone(j)
    \/ \E j \in JobIds : LogoDone(j)
    \/ \E j \in JobIds : RasterDone(j)
    \/ \E j \in JobIds : SendDone(j)
    \/ \E j \in JobIds : JsonDone(j)
    \/ \E j \in JobIds : CountDone(j)

Spec == Init /\ [][Next]_vars

\* Every awaited external call of a job settles (resolves or rejects).
Settle(j) ==
    \/ HierarchyDone(j) \/ LogoDone(j) \/ RasterDone(j)
    \/ SendDone(j) \/ JsonDone(j) \/ CountDone(j)

\* One of the awaits of a job is pending at a time, so this is weak
\* fairness of each of them.
Fairness == \A j \in JobIds : WF_vars(Settle(j))

LiveSpec == Spec /\ Fairness

----------------------------------------------------------------------------
(* Properties of the export job (Spec).                                     *)

Started(job) == job.pc # "none"

Ended(job) == job.pc = "done"

NoPipelineOutput(job) ==
    /\ ~job.paginated /\ ~job.staged /\ job.doc = <<>> /\ ~job.blob
    /\ job.downloads = 0 /\ job.sent = <<>> /\ job.counted = 0

\* C8: a job run with zero content items ends failed with the no-content
\* error, and never paginates, stages, rasterizes, produces a document,
\* downloads, submits or counts.
C8_NoContentFailsFast ==
    \A j \in JobIds :
        Started(jobs[j]) /\ jobs[j].items = <<>> =>
            /\ NoPipelineOutput(jobs[j])
            /\ Ended(jobs[j]) => jobs[j].status = "failed" /\ jobs[j].err = "no_content"

HasPrivilege == user.role = "admin" \/ user.canEdit

\* C9: a user with role admin or canEdit never sees the e-mail prompt, never
\* submits to the remote channel, and has downloaded locally when the job
\* succeeds; any other user never downloads locally and a succeeded job of
\* theirs was delivered through the remote channel.
C9_DistributionByPrivilege ==
    /\ HasPrivilege =>
          /\ ~exportModalOpen
          /\ \A j \in JobIds :
                /\ jobs[j].sent = <<>>
                /\ jobs[j].status # "delivering_remote"
                /\ jobs[j].status = "succeeded" => jobs[j].downloads = 1
    /\ ~HasPrivilege =>
          \A j \in JobIds :
                /\ jobs[j].downloads = 0
                /\ jobs[j].status # "delivering_local"
                /\ jobs[j].status = "succeeded" => jobs[j].sent = <<jobs[j].email>>

C9_Witness ==
    \E j \in JobIds :
        /\ user.role = "user" /\ user.canEdit
        /\ jobs[j].status = "succeeded" /\ jobs[j].downloads = 1 /\ jobs[j].sent = <<>>

NoStoredEmail == ~HasPrivilege /\ user.email = ""

\* C10 as stated, leaving aside the runs in which the hierarchy fetch fails:
\* every job started from the e-mail prompt has made exactly one remote
\* delivery submission, with the submitted e-mail, when it ends.
C10_ExactlyOneSubmission ==
    \A j \in JobIds :
        jobs[j].viaPrompt /\ Ended(jobs[j]) /\ jobs[j].err # "hierarchy" =>
            jobs[j].sent = <<jobs[j].email>>

Running(job) == job.pc \notin {"none", "done"}

\* C10, amended: for a non-privileged user without stored e-mail
\* handleExportInitiate only opens the prompt; a job starts only by
\* submitting an e-mail in the open prompt; that job makes at most one remote
\* delivery submission, carrying the submitted e-mail, and exactly one once
\* its document has been produced.
C10_PromptThenOneSubmission ==
    [][ /\ NoStoredEmail /\ ~exportModalOpen /\ exportModalOpen' =>
            UNCHANGED <<jobs, isExporting, sweetAlert, container>>
        /\ NoStoredEmail =>
            \A j \in JobIds :
                ~Running(jobs[j]) /\ Running(jobs'[j]) =>
                    /\ exportModalOpen
                    /\ jobs'[j].viaPrompt
                    /\ jobs'[j].email \in PromptEmails
                    /\ NoPipelineOutput(jobs'[j])
        /\ \A j \in JobIds :
                jobs'[j].viaPrompt =>
                    /\ Len(jobs'[j].sent) <= 1
                    /\ jobs'[j].sent # <<>> => jobs'[j].sent = <<jobs'[j].email>>
                    /\ jobs'[j].blob => jobs'[j].sent = <<jobs'[j].email>>
                    /\ jobs'[j].status = "succeeded" => jobs'[j].blob
                    /\ Running(jobs[j]) => jobs'[j].email = jobs[j].email
      ]_vars

C10_Witness ==
    \E j \in JobIds :
        /\ NoStoredEmail /\ jobs[j].viaPrompt
        /\ jobs[j].status = "succeeded" /\ jobs[j].sent = <<jobs[j].email>>
        /\ jobs[j].email \in PromptEmails

\* C11: every job that ended succeeded has issued exactly one usage-counter
\* increment request, and every job that ended failed has issued none.
C11_CounterMatchesSuccess ==
    \A j \in JobIds :
        Ended(jobs[j]) => jobs[j].counted = (IF jobs[j].status = "succeeded" THEN 1 ELSE 0)

ErrorAlert == [show |-> TRUE, type |-> "error", phone |-> TRUE]

\* C12: on the remote path a submission that fails at the network, answers
\* non-OK, unparsable or success false ends the job failed, with the error
\* modal and without a counter request; a counter request is made only after
\* an OK answer with success true.
C12_DeliveryFailureNoCount ==
    [][ \A j \in JobIds :
            /\ jobs'[j].answer \in Answers \ {"accepted"} \/ jobs'[j].err = "network" =>
                    jobs'[j].status = "failed" /\ jobs'[j].counted = 0
            /\ jobs'[j].sent # <<>> /\ jobs'[j].counted > 0 => jobs'[j].answer = "accepted"
            /\ jobs[j].pc \in {"send", "json"} /\ jobs'[j].status = "failed" =>
                    jobs'[j].pc = "done" /\ jobs'[j].counted = 0 /\ sweetAlert' = ErrorAlert
      ]_vars

C12_Witness ==
    \E j \in JobIds :
        /\ jobs[j].answer = "success_false" /\ jobs[j].status = "failed"
        /\ jobs[j].sent # <<>> /\ jobs[j].counted = 0

\* C13: an export of non-empty content never fails because the hierarchy
\* fetch failed.
C13_HierarchyFailureNotFatal ==
    \A j \in JobIds : jobs[j].items # <<>> => jobs[j].err # "hierarchy"

\* C14: a failed logo load gives the empty string and is not thrown; no job
\* fails because of it, and the pages staged by a job carry the logo only if
\* it was loaded.
C14_LogoFailureNotFatal ==
    /\ \A f \in LogoFetches \ {"ok"} : ~loadImage(f).threw /\ ~loadImage(f).data
    /\ \A j \in JobIds :
            /\ jobs[j].err # "logo"
            /\ jobs[j].staged /\ container.owner = j => container.logo = jobs[j].logo

\* A job whose logo did not load has ended succeeded.
C14_Witness ==
    \E j \in JobIds : jobs[j].status = "succeeded" /\ ~jobs[j].logo /\ jobs[j].blob

\* C15: a job whose rasterization failed at some page is failed and has no
\* document, download, submission or counter request; a document is only
\* produced from, and only handed over with, the rasters of all its pages.
C15_RasterFailureNoDelivery ==
    \A j \in JobIds :
        /\ jobs[j].err = "raster" =>
                /\ jobs[j].status = "failed" /\ ~jobs[j].blob
                /\ jobs[j].downloads = 0 /\ jobs[j].sent = <<>> /\ jobs[j].counted = 0
        /\ jobs[j].blob => jobs[j].doc = jobs[j].pages
        /\ jobs[j].downloads > 0 \/ jobs[j].sent # <<>> => jobs[j].blob

\* The second page failed after the first had been rasterized.
C15_Witness ==
    \E j \in JobIds :
        /\ jobs[j].err = "raster" /\ jobs[j].status = "failed"
        /\ Len(jobs[j].pages) = 2 /\ Len(jobs[j].doc) = 1

RunningJobs == {j \in JobIds : Running(jobs[j])}

\* C16: at most one export pipeline of the view runs at a time, and a job
\* that is rasterizing owns the staging container: no other job has
\* rewritten or emptied it.
C16_SingleExportAtATime ==
    /\ Cardinality(RunningJobs) <= 1
    /\ \A j \in JobIds : jobs[j].pc = "raster" => container.owner = j

\* C17: while a job is between start and terminal state the loading modal
\* is shown (and so cannot be dismissed); the step that ends a job puts up
\* one terminal modal, success for a succeeded and error for a failed job;
\* an error modal carries the support phone.
C17_LoadingThenOneTerminalModal ==
    [][ /\ RunningJobs # {} => sweetAlert = LoadingAlert
        /\ \A j \in JobIds :
              Running(jobs[j]) /\ Ended(jobs'[j]) =>
                  /\ sweetAlert'.show
                  /\ sweetAlert'.type = (IF jobs'[j].status = "succeeded" THEN "success" ELSE "error")
        /\ sweetAlert'.type = "error" => sweetAlert'.phone
      ]_vars

\* C18: the document of a succeeded job has the pages splitContentIntoPages
\* returned for its content, page i being the raster of page i.
C18_DocumentMatchesPages ==
    \A j \in JobIds :
        jobs[j].status = "succeeded" =>
            /\ jobs[j].pages = splitContentIntoPages(view, ExportHTML(view, jobs[j].items))
            /\ Len(jobs[j].doc) = Len(jobs[j].pages)
            /\ \A k \in 1..Len(jobs[j].pages) : jobs[j].doc[k] = jobs[j].pages[k]

C18_Witness ==
    \E j \in JobIds :
        /\ jobs[j].status = "succeeded" /\ Len(jobs[j].pages) = 2
        /\ jobs[j].pages[1] # jobs[j].pages[2] /\ jobs[j].doc = jobs[j].pages

\* C19: the step in which a job stages its pages leaves exactly its own
\* pages in the container; the step in which a job reaches a terminal state,
\* succeeded or failed, leaves the container empty and isExporting false.
C19_ContainerCleared ==
    [][ \A j \in JobIds :
            /\ ~jobs[j].staged /\ jobs'[j].staged =>
                    container'.owner = j /\ container'.pages = jobs'[j].pages
            /\ Running(jobs[j]) /\ Ended(jobs'[j]) =>
                    container' = EmptyContainer /\ ~isExporting'
      ]_vars

\* A job that had staged its pages failed and left the container empty.
C19_Witness ==
    \E j \in JobIds :
        /\ Ended(jobs[j]) /\ jobs[j].status = "failed" /\ jobs[j].staged
        /\ container = EmptyContainer /\ ~isExporting

----------------------------------------------------------------------------
(* SpecName: the file name of the local download.  Strings are sequences    *)
(* of characters.                                                           *)

LatinLetters ==
    { "a", "b", "c", "d", "e", "f", "g", "h", "i", "j", "k", "l", "m", "n", "o", "p", "q",
      "r", "s", "t", "u", "v", "w", "x", "y", "z", "A", "B", "C", "D", "E", "F", "G", "H",
      "I", "J", "K", "L", "M", "N", "O", "P", "Q", "R", "S", "T", "U", "V", "W", "X", "Y", "Z" }

Digits == {"0", "1", "2", "3", "4", "5", "6", "7", "8", "9"}

\* Characters of the Tamil block ஀-௿ that occur in the inputs.
TamilLetters == {"க"}

\* Characters a lesson name is drawn from.
NameChars == {"a", "7", " ", "&", "க"}

\* hierarchy?.lessonName: a name, or nothing.
HierarchyNames == SeqUpTo(NameChars, MaxName)

\* Labels of RESOURCE_TYPES shown by GenericContentView.
GenericLabels ==
    { <<"B", "o", "o", "k">>,
      <<"B", "o", "o", "k", "b", "a", "c", "k", " ", "A", "c", "t", "i", "v", "i", "t", "y">>,
      <<"Q", "-", "A", " ", "&", " ", "M", "o", "r", "e">> }

\* The resource label each view puts into the name: a literal in NotesView
\* and QAView, resourceInfo.label in GenericContentView.
Labels(v) ==
    IF v = "notes" THEN {<<"N", "o", "t", "e", "s">>}
    ELSE IF v = "qa" THEN {<<"Q", "A">>}
    ELSE GenericLabels

\* replace(/[^a-zA-Z0-9஀-௿]/g, '_')
Replace(str) ==
    [k \in 1..Len(str) |->
        IF str[k] \in LatinLetters \cup Digits \cup TamilLetters THEN str[k] ELSE "_"]

\* new Date().toISOString().slice(0, 10)
ExportDate == "2026-11-01"

\* link.download, as the parts of its template string.
fileName(hierarchyName, label) ==
    LET lessonName == IF hierarchyName # <<>> THEN hierarchyName ELSE label
    IN  [lesson |-> Replace(lessonName), label |-> label, date |-> ExportDate]

InitName ==
    /\ view \in Views
    /\ html = <<>>
    /\ blockElements = <<>>
    /\ i = 1
    /\ pc = "none"
    /\ pages = <<>>
    /\ currentPageHTML = <<>>
    /\ currentHeight = 0
    /\ result = <<>>
    /\ user = [role |-> "admin", canEdit |-> FALSE, email |-> ""]
    /\ contents = <<>>
    /\ exportModalOpen = FALSE
    /\ isExporting = FALSE
    /\ sweetAlert = NoAlert
    /\ container = EmptyContainer
    /\ downloadKey = FALSE
    /\ jobs = [j \in JobIds |-> NoJob]
    /\ download \in [lessonName : HierarchyNames, label : Labels(view), set : {FALSE}, name : {NoName}]

SetDownloadName ==
    /\ ~download.set
    /\ download' = [download EXCEPT !.set = TRUE, !.name = fileName(download.lessonName, download.label)]
    /\ UNCHANGED <<view, pagVars, user, contents, exportModalOpen, isExporting, sweetAlert,
                   container, downloadKey, jobs>>

NextName == SetDownloadName

SpecName == InitName /\ [][NextName]_vars

Alphanumeric(c) == c \in LatinLetters \cup Digits \cup TamilLetters

\* C21: the suggested file name consists of lesson name, resource label and
\* export date, and every character of the lesson name and of the resource
\* label that is not alphanumeric has been replaced by an underscore.
C21_FileNameSanitized ==
    download.set =>
        LET lessonName == IF download.lessonName # <<>> THEN download.lessonName ELSE download.label
            Clean(str, out) ==
                /\ Len(out) = Len(str)
                /\ \A k \in 1..Len(str) : out[k] = (IF Alphanumeric(str[k]) THEN str[k] ELSE "_")
        IN  /\ Clean(lessonName, download.name.lesson)
            /\ Clean(download.label, download.name.label)
            /\ download.name.date = ExportDate

\* C22: the stages of a job run in sequence: page elements exist only after
\* pagination, and while page k is being rasterized the document holds the
\* bitmaps of exactly the pages before k, in order.
C22_StagesInSequence ==
    \A j \in JobIds :
        /\ jobs[j].staged => jobs[j].paginated
        /\ jobs[j].doc # <<>> => jobs[j].staged
        /\ jobs[j].pc = "raster" =>
                /\ jobs[j].k \in 1..Len(jobs[j].pages)
                /\ jobs[j].doc = SubSeq(jobs[j].pages, 1, jobs[j].k - 1)

\* The second page of a job is being rasterized.
C22_Witness ==
    \E j \in JobIds :
        jobs[j].pc = "raster" /\ jobs[j].k = 2 /\ jobs[j].doc = <<jobs[j].pages[1]>>

\* C23: when every awaited call settles, every started job reaches a
\* terminal state, succeeded or failed, with a terminal modal in place of the
\* loading modal and isExporting false.
C23_JobsTerminate ==
    \A j \in JobIds :
        Running(jobs[j]) ~>
            /\ Ended(jobs[j]) /\ jobs[j].status \in {"succeeded", "failed"}
            /\ sweetAlert.show /\ sweetAlert.type \in {"success", "error"}
            /\ ~isExporting

\* A job that went through remote delivery and the counter request ended.
C23_Witness ==
    \E j \in JobIds :
        /\ Ended(jobs[j]) /\ jobs[j].status = "succeeded" /\ jobs[j].answer = "accepted"
        /\ jobs[j].counted = 1 /\ ~isExporting /\ sweetAlert.type = "success"

HandedOver(job) == job.downloads > 0 \/ job.answer = "accepted"

\* C28: once the document has been handed over (download triggered or
\* delivery accepted), the job ends succeeded whatever the counter request
\* does.
C28_CounterFailureHarmless ==
    \A j \in JobIds :
        HandedOver(jobs[j]) =>
            /\ jobs[j].status # "failed"
            /\ Ended(jobs[j]) => jobs[j].status = "succeeded"

ExportBlocks(job) == BlockElements(view, ExportHTML(view, job.items))

OnlyEmptyList(blocks) ==
    Len(blocks) = 1 /\ blocks[1].tag \in {"UL", "OL", "TABLE"} /\ blocks[1].items = <<>>

C30_EveryNoteReachesPaginator ==
    \A j \in JobIds :
        view = "notes" /\ jobs[j].paginated =>
            HeightsOf(ExportBlocks(jobs[j])) = HeightsOf(FlatBlocks(jobs[j].items))

====
